---- MODULE Spec2Model ----
(***************************************************************************)
(* A model of the CodeDefender command-line client (cli/src/main.rs) and   *)
(* of the symbol resolver of the utils crate (utils/src/lib.rs).           *)
(*                                                                         *)
(* main() is one sequential function.  It is cut into steps at its remote  *)
(* calls and at its loop iterations; pc names the step main() is about to  *)
(* take.  The remote operations (upload, analyze, defend, download) are    *)
(* external: each call returns one of the values main() matches on, Ok or  *)
(* Err for upload, analyze and defend, a DownloadStatus for download.      *)
(* File reads and writes are taken to succeed.  Time is counted in         *)
(* minutes: the deadline of 300 seconds is 5, and config.timeout, in       *)
(* milliseconds in the program, is drawn in the same unit.                 *)
(***************************************************************************)
EXTENDS Integers, Sequences, FiniteSets, TLC

VARIABLES
    pc,            \* the step main() takes next
    config,        \* the parsed YamlConfig (read-only after parsing)
    analysis,      \* the AnalysisResult returned by api::analyze
    cdconfig,      \* the CDConfig under construction
    profile_idx,   \* position of `for profile in config.profiles.iter()`
    symbol_idx,    \* position of `for symbol in profile.symbols.iter()`
    symbols,       \* the local `symbols: Vec<u64>` of the profile being compiled
    macro_idx,     \* position of `for value in analysis.macros.iter()`
    now,           \* start_time.elapsed(), in minutes (saturating at ClockCap)
    output,        \* number of times config.output_file was written
    log,           \* the log::error! records, in order
    uploads,       \* number of api::upload calls made
    analyzes,      \* number of api::analyze calls made
    defends,       \* number of api::defend calls made
    polls,         \* number of api::download calls made (saturating at MaxCount)
    sleeps,        \* number of thread::sleep calls made (saturating at MaxCount)
    last           \* the DownloadStatus of the latest api::download call

vars == <<pc, config, analysis, cdconfig, profile_idx, symbol_idx, symbols,
          macro_idx, now, output, log, uploads, analyzes, defends, polls,
          sleeps, last>>

(***************************************************************************)
(* Bounds of the model.                                                    *)
(***************************************************************************)
\* whole-program specification (Spec)
MaxProfiles == 1
MaxSymbols == 1
MaxFunctions == 1
MaxRejects == 1
MaxMacros == 1
MaxMacroRvas == 1
\* compile-phase specification (SpecCompile)
CompileMaxProfiles == 2
CompileMaxSymbols == 2
CompileMaxFunctions == 1
CompileMaxRejects == 1
\* single-symbol resolution specification (SpecResolve)
ResolveMaxFunctions == 2
ResolveMaxRejects == 2
\* compile-and-merge specification (SpecMerge)
MergeMaxProfiles == 2
MergeMaxSymbols == 1
MergeMaxFunctions == 1
MergeMaxRejects == 1
MergeMaxMacros == 2
MergeMaxMacroRvas == 2
\* counters of polls and sleeps saturate here
MaxCount == 3
\* longest duration of one api::download call, in minutes
MaxPollDuration == 1

(***************************************************************************)
(* Program constants.                                                      *)
(***************************************************************************)
YAML_CONFIG_VERSION == "1.0.0"
\* Duration::from_secs(300), in minutes
timeout_duration == 5
ClockCap == timeout_duration + 1

(***************************************************************************)
(* Value domains.                                                          *)
(***************************************************************************)
Names == {"f", "g"}
Rvas == {1, 2}
Tys == {"ReadWriteToCode", "Other"}
ProfileNames == {"P", "Q"}
Versions == {YAML_CONFIG_VERSION, "0.9.0"}
\* config.timeout, the poll interval, in minutes: none, short, beyond the deadline
Timeouts == {0, 1, timeout_duration + 1}
PollDurations == 0..MaxPollDuration

SeqUpTo(S, n) == UNION {[1..k -> S] : k \in 0..n}

Min(a, b) == IF a < b THEN a ELSE b

\* enum YamlSymbol { Name(String), Rva(u64) }
Name(n) == [tag |-> "Name", name |-> n, rva |-> 0]
Rva(r) == [tag |-> "Rva", name |-> "", rva |-> r]
YamlSymbols == {Name(n) : n \in Names} \cup {Rva(r) : r \in Rvas}

\* struct AnalysisFunction { rva, symbol, ref_count }
AnalysisFunctions == [rva : Rvas, symbol : Names]
\* struct AnalysisReject { rva, symbol, ty, reason }
AnalysisRejects == [rva : Rvas, symbol : Names, ty : Tys]
\* struct AnalysisMacroProfile { name, rvas }
AnalysisMacroProfiles(maxRvas) == [name : ProfileNames, rvas : SeqUpTo(Rvas, maxRvas)]

\* struct AnalysisResult { environment, functions, rejects, macros }
AnalysisResults(maxF, maxR, maxM, maxMR) ==
    [functions : SeqUpTo(AnalysisFunctions, maxF),
     rejects : SeqUpTo(AnalysisRejects, maxR),
     macros : SeqUpTo(AnalysisMacroProfiles(maxMR), maxM)]

NoAnalysis == [functions |-> <<>>, rejects |-> <<>>, macros |-> <<>>]

\* the (passes, compiler_settings) pairs profiles are drawn with: both are opaque
OneStyle == {<<"passesA", "settingsA">>}
TwoStyles == {<<"passesA", "settingsA">>, <<"passesB", "settingsB">>}

\* struct YamlProfile { name, passes, compiler_settings, symbols, color }
YamlProfiles(symbolLists, styles) ==
    {[name |-> n, passes |-> st[1], compiler_settings |-> st[2], symbols |-> y] :
        n \in ProfileNames, st \in styles, y \in symbolLists}

\* struct YamlConfig, with the fields main() reads
YamlConfigs(versions, pdbs, timeouts, profileLists) ==
    [version : versions, pdb_file : pdbs, timeout : timeouts,
     module_settings : {"module_settings"}, profiles : profileLists]

\* struct CDProfile { name, passes, compiler_settings, symbols }
CDProfile(profile, syms) ==
    [name |-> profile.name, passes |-> profile.passes,
     compiler_settings |-> profile.compiler_settings, symbols |-> syms]

NoCDConfig == [module_settings |-> "", profiles |-> <<>>]

LogEntry(kind, name, rva) == [kind |-> kind, name |-> name, rva |-> rva]

(***************************************************************************)
(* Iterator::find: the index of the first element that satisfies the       *)
(* predicate, scanning from the front; 0 when there is none.  hits[i] is   *)
(* the predicate's value on element i.                                     *)
(***************************************************************************)
RECURSIVE FindFrom(_, _)
FindFrom(hits, i) ==
    IF i > Len(hits) THEN 0
    ELSE IF hits[i] THEN i
    ELSE FindFrom(hits, i + 1)

Find(hits) == FindFrom(hits, 1)

\* analysis.functions.iter().find(|sym| sym.symbol == *name)
FindFunctionByName(a, name) ==
    Find([i \in 1..Len(a.functions) |-> a.functions[i].symbol = name])

\* FindRejectByName without the test of the category
FindRejectByName_AnyTy(a, name) ==
    Find([i \in 1..Len(a.rejects) |-> a.rejects[i].symbol = name])

\* analysis.rejects.iter().find(|sym| sym.symbol == *name && sym.ty == "ReadWriteToCode")
FindRejectByName(a, name) ==
    Find([i \in 1..Len(a.rejects) |->
            a.rejects[i].symbol = name /\ a.rejects[i].ty = "ReadWriteToCode"])

\* analysis.functions.iter().find(|sym| sym.rva == *rva)
FindFunctionByRva(a, rva) ==
    Find([i \in 1..Len(a.functions) |-> a.functions[i].rva = rva])

\* FindRejectByRva without the test of the category
FindRejectByRva_AnyTy(a, rva) ==
    Find([i \in 1..Len(a.rejects) |-> a.rejects[i].rva = rva])

\* analysis.rejects.iter().find(|sym| sym.rva == *rva && sym.ty == "ReadWriteToCode")
FindRejectByRva(a, rva) ==
    Find([i \in 1..Len(a.rejects) |->
            a.rejects[i].rva = rva /\ a.rejects[i].ty = "ReadWriteToCode"])

(***************************************************************************)
(* The body of `match symbol` in main(): the outcome of resolving one      *)
(* symbol, either ok with the rva pushed or the error logged on return.    *)
(***************************************************************************)
Resolved(rva) == [ok |-> TRUE, rva |-> rva, err |-> LogEntry("", "", 0)]
Unresolved(err) == [ok |-> FALSE, rva |-> 0, err |-> err]

\* ResolveName that searches the rejects before the functions
ResolveName_RejectsFirst(a, name) ==
    LET f == FindFunctionByName(a, name)
        r == FindRejectByName(a, name)
    IN  IF r # 0 THEN Resolved(a.rejects[r].rva)
        ELSE IF f # 0 THEN Resolved(a.functions[f].rva)
        ELSE Unresolved(LogEntry("SymbolNameNotFound", name, 0))

ResolveName(a, name) ==
    LET f == FindFunctionByName(a, name)
        r == FindRejectByName(a, name)
    IN  IF f # 0 THEN Resolved(a.functions[f].rva)
        ELSE IF r # 0 THEN Resolved(a.rejects[r].rva)
        ELSE Unresolved(LogEntry("SymbolNameNotFound", name, 0))

\* ResolveRva that accepts only the rvas of functions
ResolveRva_FunctionsOnly(a, rva) ==
    IF FindFunctionByRva(a, rva) = 0
    THEN Unresolved(LogEntry("RvaNotFound", "", rva))
    ELSE Resolved(rva)

ResolveRva(a, rva) ==
    IF FindFunctionByRva(a, rva) = 0 /\ FindRejectByRva(a, rva) = 0
    THEN Unresolved(LogEntry("RvaNotFound", "", rva))
    ELSE Resolved(rva)

ResolveSymbol(a, symbol) ==
    IF symbol.tag = "Name" THEN ResolveName(a, symbol.name)
    ELSE ResolveRva(a, symbol.rva)

(***************************************************************************)
(* utils: is_valid_rva and resolve_symbols.                                *)
(***************************************************************************)
\* is_valid_rva that accepts the rva of a reject of any category
is_valid_rva_AnyTy(rva, a) ==
    \/ \E i \in 1..Len(a.functions) : a.functions[i].rva = rva
    \/ \E i \in 1..Len(a.rejects) : a.rejects[i].rva = rva

is_valid_rva(rva, a) ==
    \/ \E i \in 1..Len(a.functions) : a.functions[i].rva = rva
    \/ \E i \in 1..Len(a.rejects) :
          a.rejects[i].rva = rva /\ a.rejects[i].ty = "ReadWriteToCode"

\* Result<Vec<u64>, _>: ok with the resolved rvas, or the error at the first
\* symbol that does not resolve (at: its position)
RECURSIVE resolve_symbols_from(_, _, _, _)
resolve_symbols_from(syms, a, i, resolved) ==
    IF i > Len(syms) THEN [ok |-> TRUE, resolved |-> resolved, at |-> 0, err |-> ""]
    ELSE IF syms[i].tag = "Name"
    THEN LET f == FindFunctionByName(a, syms[i].name)
             r == FindRejectByName(a, syms[i].name)
             rva == IF f # 0 THEN a.functions[f].rva
                    ELSE IF r # 0 THEN a.rejects[r].rva ELSE 0
         IN  IF f # 0 \/ r # 0
             THEN resolve_symbols_from(syms, a, i + 1, Append(resolved, rva))
             ELSE [ok |-> FALSE, resolved |-> <<>>, at |-> i, err |-> "Missing symbol"]
    ELSE IF ~is_valid_rva(syms[i].rva, a)
         THEN [ok |-> FALSE, resolved |-> <<>>, at |-> i, err |-> "Invalid RVA"]
         ELSE resolve_symbols_from(syms, a, i + 1, Append(resolved, syms[i].rva))

resolve_symbols(syms, a) == resolve_symbols_from(syms, a, 1, <<>>)

(***************************************************************************)
(* The initial state: the configuration has been read and parsed.          *)
(***************************************************************************)
\* the values main()'s variables hold when it is about to take step startpc
InitAt(startpc, configs, analyses) ==
    /\ config \in configs
    /\ analysis \in analyses
    /\ pc = startpc
    /\ cdconfig = IF startpc = "start" THEN NoCDConfig
                  ELSE [module_settings |-> config.module_settings, profiles |-> <<>>]
    /\ profile_idx = 1
    /\ symbol_idx = 1
    /\ symbols = <<>>
    /\ macro_idx = 1
    /\ now = 0
    /\ output = 0
    /\ log = <<>>
    /\ uploads = IF startpc = "start" THEN 0 ELSE IF config.pdb_file THEN 2 ELSE 1
    /\ analyzes = IF startpc = "start" THEN 0 ELSE 1
    /\ defends = IF startpc = "loop" THEN 1 ELSE 0
    /\ polls = 0
    /\ sleeps = 0
    /\ last = "None"

\* the whole program: the configuration file has been read and parsed
Init ==
    InitAt("start",
           YamlConfigs(Versions, BOOLEAN, Timeouts,
                       SeqUpTo(YamlProfiles(SeqUpTo(YamlSymbols, MaxSymbols), OneStyle),
                               MaxProfiles)),
           {NoAnalysis})

\* the compile phase: api::analyze has returned Ok(analysis)
InitCompile ==
    InitAt("compile",
           YamlConfigs({YAML_CONFIG_VERSION}, {FALSE}, {0},
                       SeqUpTo(YamlProfiles(SeqUpTo(YamlSymbols, CompileMaxSymbols),
                                            TwoStyles),
                               CompileMaxProfiles)),
           AnalysisResults(CompileMaxFunctions, CompileMaxRejects, 0, 0))

\* the resolution of one symbol: one profile that declares one symbol
InitResolve ==
    InitAt("compile",
           YamlConfigs({YAML_CONFIG_VERSION}, {FALSE}, {0},
                       {<<p>> : p \in YamlProfiles({<<y>> : y \in YamlSymbols}, OneStyle)}),
           AnalysisResults(ResolveMaxFunctions, ResolveMaxRejects, 0, 0))

\* the compile and merge phases: api::analyze has returned Ok(analysis), and
\* the analysis carries macro groups
InitMerge ==
    InitAt("compile",
           YamlConfigs({YAML_CONFIG_VERSION}, {FALSE}, {0},
                       SeqUpTo(YamlProfiles(SeqUpTo(YamlSymbols, MergeMaxSymbols),
                                            OneStyle),
                               MergeMaxProfiles)),
           AnalysisResults(MergeMaxFunctions, MergeMaxRejects, MergeMaxMacros,
                           MergeMaxMacroRvas))

\* the poll loop: api::defend has returned Ok(execution_id) for a configuration
\* without profiles
InitPoll ==
    InitAt("loop", YamlConfigs({YAML_CONFIG_VERSION}, BOOLEAN, Timeouts, {<<>>}),
           {NoAnalysis})

(***************************************************************************)
(* The steps of main().                                                    *)
(***************************************************************************)
Count(n) == Min(n + 1, MaxCount)
Advance(t, d) == Min(t + d, ClockCap)

\* CheckVersion without the return: the mismatch is logged and the run goes on
CheckVersion_NoReturn ==
    /\ pc = "start"
    /\ IF config.version # YAML_CONFIG_VERSION
       THEN log' = log \o <<LogEntry("InvalidVersion", config.version, 0),
                            LogEntry("LatestHere", "", 0)>>
       ELSE UNCHANGED log
    /\ pc' = "upload_binary"
    /\ UNCHANGED <<config, analysis, cdconfig, profile_idx, symbol_idx, symbols,
                   macro_idx, now, output, uploads, analyzes, defends, polls,
                   sleeps, last>>

\* if config.version != YAML_CONFIG_VERSION { log::error!(..); log::error!(..); return; }
CheckVersion ==
    /\ pc = "start"
    /\ IF config.version # YAML_CONFIG_VERSION
       THEN /\ log' = log \o <<LogEntry("InvalidVersion", config.version, 0),
                               LogEntry("LatestHere", "", 0)>>
            /\ pc' = "done"
       ELSE /\ pc' = "upload_binary"
            /\ UNCHANGED log
    /\ UNCHANGED <<config, analysis, cdconfig, profile_idx, symbol_idx, symbols,
                   macro_idx, now, output, uploads, analyzes, defends, polls,
                   sleeps, last>>

\* api::upload(binary_file_bytes, ..).expect("Failed to upload binary file!")
UploadBinary ==
    /\ pc = "upload_binary"
    /\ uploads' = uploads + 1
    /\ \E ok \in BOOLEAN :
          pc' = IF ~ok THEN "panicked"
                ELSE IF config.pdb_file THEN "upload_pdb" ELSE "analyze"
    /\ UNCHANGED <<config, analysis, cdconfig, profile_idx, symbol_idx, symbols,
                   macro_idx, now, output, log, analyzes, defends, polls,
                   sleeps, last>>

\* Some(path) => Some(api::upload(pdb_file_bytes, ..).expect("Failed to upload PDB file!"))
UploadPdb ==
    /\ pc = "upload_pdb"
    /\ uploads' = uploads + 1
    /\ \E ok \in BOOLEAN : pc' = IF ok THEN "analyze" ELSE "panicked"
    /\ UNCHANGED <<config, analysis, cdconfig, profile_idx, symbol_idx, symbols,
                   macro_idx, now, output, log, analyzes, defends, polls,
                   sleeps, last>>

\* match api::analyze(..) { Ok(analysis) => { let mut cdconfig = CDConfig {..}; ..
AnalyzeOk(analyses) ==
    /\ pc = "analyze"
    /\ analyzes' = analyzes + 1
    /\ analysis' \in analyses
    /\ cdconfig' = [module_settings |-> config.module_settings, profiles |-> <<>>]
    /\ pc' = "compile"
    /\ UNCHANGED <<config, profile_idx, symbol_idx, symbols, macro_idx, now,
                   output, log, uploads, defends, polls, sleeps, last>>

\* AnalyzeErr that calls api::analyze a second time after a first failure
AnalyzeErr_RetryOnce ==
    /\ pc = "analyze"
    /\ analyzes' = analyzes + 1
    /\ log' = Append(log, LogEntry("AnalysisFailed", "", 0))
    /\ pc' = IF analyzes = 0 THEN "analyze" ELSE "done"
    /\ UNCHANGED <<config, analysis, cdconfig, profile_idx, symbol_idx, symbols,
                   macro_idx, now, output, uploads, defends, polls, sleeps, last>>

\* Err(e) => { log::error!("Analysis failed: {}", ..); return; }
AnalyzeErr ==
    /\ pc = "analyze"
    /\ analyzes' = analyzes + 1
    /\ log' = Append(log, LogEntry("AnalysisFailed", "", 0))
    /\ pc' = "done"
    /\ UNCHANGED <<config, analysis, cdconfig, profile_idx, symbol_idx, symbols,
                   macro_idx, now, output, uploads, defends, polls, sleeps, last>>

\* ResolveStep that logs a symbol that does not resolve and goes on to the next
ResolveStep_Accumulate ==
    /\ pc = "compile"
    /\ profile_idx <= Len(config.profiles)
    /\ symbol_idx <= Len(config.profiles[profile_idx].symbols)
    /\ LET r == ResolveSymbol(analysis, config.profiles[profile_idx].symbols[symbol_idx])
       IN  IF r.ok
           THEN /\ symbols' = Append(symbols, r.rva)
                /\ UNCHANGED log
           ELSE /\ log' = Append(log, r.err)
                /\ UNCHANGED symbols
    /\ symbol_idx' = symbol_idx + 1
    /\ UNCHANGED <<pc, config, analysis, cdconfig, profile_idx, macro_idx, now,
                   output, uploads, analyzes, defends, polls, sleeps, last>>

\* one iteration of `for symbol in profile.symbols.iter()`
ResolveStep ==
    /\ pc = "compile"
    /\ profile_idx <= Len(config.profiles)
    /\ symbol_idx <= Len(config.profiles[profile_idx].symbols)
    /\ LET r == ResolveSymbol(analysis, config.profiles[profile_idx].symbols[symbol_idx])
       IN  IF r.ok
           THEN /\ symbols' = Append(symbols, r.rva)
                /\ symbol_idx' = symbol_idx + 1
                /\ UNCHANGED <<pc, log>>
           ELSE /\ log' = Append(log, r.err)
                /\ pc' = "done"
                /\ UNCHANGED <<symbols, symbol_idx>>
    /\ UNCHANGED <<config, analysis, cdconfig, profile_idx, macro_idx, now,
                   output, uploads, analyzes, defends, polls, sleeps, last>>

\* PushProfile with the symbols vector declared outside the profile loop, so
\* that it is not emptied between profiles
PushProfile_KeepsSymbols ==
    /\ pc = "compile"
    /\ profile_idx <= Len(config.profiles)
    /\ symbol_idx > Len(config.profiles[profile_idx].symbols)
    /\ cdconfig' = [cdconfig EXCEPT !.profiles =
                       Append(@, CDProfile(config.profiles[profile_idx], symbols))]
    /\ profile_idx' = profile_idx + 1
    /\ symbol_idx' = 1
    /\ UNCHANGED <<pc, config, analysis, symbols, macro_idx, now, output, log,
                   uploads, analyzes, defends, polls, sleeps, last>>

\* cdconfig.profiles.push(CDProfile { .. symbols }), then the next profile
PushProfile ==
    /\ pc = "compile"
    /\ profile_idx <= Len(config.profiles)
    /\ symbol_idx > Len(config.profiles[profile_idx].symbols)
    /\ cdconfig' = [cdconfig EXCEPT !.profiles =
                       Append(@, CDProfile(config.profiles[profile_idx], symbols))]
    /\ profile_idx' = profile_idx + 1
    /\ symbol_idx' = 1
    /\ symbols' = <<>>
    /\ UNCHANGED <<pc, config, analysis, macro_idx, now, output, log, uploads,
                   analyzes, defends, polls, sleeps, last>>

\* `for profile in config.profiles.iter()` is exhausted
EndCompile ==
    /\ pc = "compile"
    /\ profile_idx > Len(config.profiles)
    /\ pc' = "merge"
    /\ UNCHANGED <<config, analysis, cdconfig, profile_idx, symbol_idx, symbols,
                   macro_idx, now, output, log, uploads, analyzes, defends,
                   polls, sleeps, last>>

\* a search that returns the last profile of that name instead of the first
FindProfile_Last(cfg, name) ==
    IF \E i \in 1..Len(cfg.profiles) : cfg.profiles[i].name = name
    THEN CHOOSE i \in 1..Len(cfg.profiles) :
            /\ cfg.profiles[i].name = name
            /\ \A j \in (i + 1)..Len(cfg.profiles) : cfg.profiles[j].name # name
    ELSE 0

\* cdconfig.profiles.iter_mut().find(|p| p.name == value.name)
FindProfile(cfg, name) ==
    Find([i \in 1..Len(cfg.profiles) |-> cfg.profiles[i].name = name])

\* the condition under which a macro rva is reported as not protectable
MacroRvaRejected(a, rva) ==
    FindFunctionByRva(a, rva) = 0 /\ FindRejectByRva(a, rva) = 0

\* `for rva in value.rvas.iter()`: the position of the first rva reported, or 0
FirstRejectedMacroRva(a, rvas) ==
    Find([i \in 1..Len(rvas) |-> MacroRvaRejected(a, rvas[i])])

\* MergeGroup that skips a group whose profile does not exist instead of failing
MergeGroup_SilentSkip ==
    /\ pc = "merge"
    /\ macro_idx <= Len(analysis.macros)
    /\ LET value == analysis.macros[macro_idx]
           p == FindProfile(cdconfig, value.name)
           bad == FirstRejectedMacroRva(analysis, value.rvas)
       IN  IF p = 0
           THEN /\ macro_idx' = macro_idx + 1
                /\ UNCHANGED <<cdconfig, pc, log>>
           ELSE IF bad # 0
           THEN /\ log' = Append(log, LogEntry("MacroCantBeProtected", "", value.rvas[bad]))
                /\ pc' = "done"
                /\ UNCHANGED <<cdconfig, macro_idx>>
           ELSE /\ cdconfig' = [cdconfig EXCEPT !.profiles[p].symbols = @ \o value.rvas]
                /\ macro_idx' = macro_idx + 1
                /\ UNCHANGED <<pc, log>>
    /\ UNCHANGED <<config, analysis, profile_idx, symbol_idx, symbols, now,
                   output, uploads, analyzes, defends, polls, sleeps, last>>

\* MergeGroup that pushes each rva as it is validated, so that the rvas before
\* the first one reported stay in the profile
MergeGroup_PartialAppend ==
    /\ pc = "merge"
    /\ macro_idx <= Len(analysis.macros)
    /\ LET value == analysis.macros[macro_idx]
           p == FindProfile(cdconfig, value.name)
           bad == FirstRejectedMacroRva(analysis, value.rvas)
       IN  IF p = 0
           THEN /\ log' = Append(log, LogEntry("MacroProfileMissing", value.name, 0))
                /\ pc' = "done"
                /\ UNCHANGED <<cdconfig, macro_idx>>
           ELSE IF bad # 0
           THEN /\ log' = Append(log, LogEntry("MacroCantBeProtected", "", value.rvas[bad]))
                /\ pc' = "done"
                /\ cdconfig' = [cdconfig EXCEPT !.profiles[p].symbols =
                                   @ \o SubSeq(value.rvas, 1, bad - 1)]
                /\ UNCHANGED macro_idx
           ELSE /\ cdconfig' = [cdconfig EXCEPT !.profiles[p].symbols = @ \o value.rvas]
                /\ macro_idx' = macro_idx + 1
                /\ UNCHANGED <<pc, log>>
    /\ UNCHANGED <<config, analysis, profile_idx, symbol_idx, symbols, now,
                   output, uploads, analyzes, defends, polls, sleeps, last>>

\* MergeGroup that adds only the rvas the profile does not hold yet
MergeGroup_Dedup ==
    /\ pc = "merge"
    /\ macro_idx <= Len(analysis.macros)
    /\ LET value == analysis.macros[macro_idx]
           p == FindProfile(cdconfig, value.name)
           bad == FirstRejectedMacroRva(analysis, value.rvas)
       IN  IF p = 0
           THEN /\ log' = Append(log, LogEntry("MacroProfileMissing", value.name, 0))
                /\ pc' = "done"
                /\ UNCHANGED <<cdconfig, macro_idx>>
           ELSE IF bad # 0
           THEN /\ log' = Append(log, LogEntry("MacroCantBeProtected", "", value.rvas[bad]))
                /\ pc' = "done"
                /\ UNCHANGED <<cdconfig, macro_idx>>
           ELSE /\ cdconfig' = [cdconfig EXCEPT !.profiles[p].symbols =
                                   @ \o SelectSeq(value.rvas,
                                                  LAMBDA r : \A k \in 1..Len(@) : @[k] # r)]
                /\ macro_idx' = macro_idx + 1
                /\ UNCHANGED <<pc, log>>
    /\ UNCHANGED <<config, analysis, profile_idx, symbol_idx, symbols, now,
                   output, uploads, analyzes, defends, polls, sleeps, last>>

\* MergeGroup that extends every profile of the group's name, not the first only
MergeGroup_AllCarriers ==
    /\ pc = "merge"
    /\ macro_idx <= Len(analysis.macros)
    /\ LET value == analysis.macros[macro_idx]
           p == FindProfile(cdconfig, value.name)
           bad == FirstRejectedMacroRva(analysis, value.rvas)
       IN  IF p = 0
           THEN /\ log' = Append(log, LogEntry("MacroProfileMissing", value.name, 0))
                /\ pc' = "done"
                /\ UNCHANGED <<cdconfig, macro_idx>>
           ELSE IF bad # 0
           THEN /\ log' = Append(log, LogEntry("MacroCantBeProtected", "", value.rvas[bad]))
                /\ pc' = "done"
                /\ UNCHANGED <<cdconfig, macro_idx>>
           ELSE /\ cdconfig' = [cdconfig EXCEPT !.profiles =
                                   [i \in 1..Len(@) |->
                                       IF @[i].name = value.name
                                       THEN [@[i] EXCEPT !.symbols = @ \o value.rvas]
                                       ELSE @[i]]]
                /\ macro_idx' = macro_idx + 1
                /\ UNCHANGED <<pc, log>>
    /\ UNCHANGED <<config, analysis, profile_idx, symbol_idx, symbols, now,
                   output, uploads, analyzes, defends, polls, sleeps, last>>

\* one iteration of `for value in analysis.macros.iter()`
MergeGroup ==
    /\ pc = "merge"
    /\ macro_idx <= Len(analysis.macros)
    /\ LET value == analysis.macros[macro_idx]
           p == FindProfile(cdconfig, value.name)
           bad == FirstRejectedMacroRva(analysis, value.rvas)
       IN  IF p = 0
           THEN /\ log' = Append(log, LogEntry("MacroProfileMissing", value.name, 0))
                /\ pc' = "done"
                /\ UNCHANGED <<cdconfig, macro_idx>>
           ELSE IF bad # 0
           THEN /\ log' = Append(log, LogEntry("MacroCantBeProtected", "", value.rvas[bad]))
                /\ pc' = "done"
                /\ UNCHANGED <<cdconfig, macro_idx>>
           ELSE /\ cdconfig' = [cdconfig EXCEPT !.profiles[p].symbols = @ \o value.rvas]
                /\ macro_idx' = macro_idx + 1
                /\ UNCHANGED <<pc, log>>
    /\ UNCHANGED <<config, analysis, profile_idx, symbol_idx, symbols, now,
                   output, uploads, analyzes, defends, polls, sleeps, last>>

\* `for value in analysis.macros.iter()` is exhausted
EndMerge ==
    /\ pc = "merge"
    /\ macro_idx > Len(analysis.macros)
    /\ pc' = "defend"
    /\ UNCHANGED <<config, analysis, cdconfig, profile_idx, symbol_idx, symbols,
                   macro_idx, now, output, log, uploads, analyzes, defends,
                   polls, sleeps, last>>

\* match api::defend(binary_file_uuid, cdconfig, ..) { Ok(execution_id) => {
\*     let start_time = Instant::now(); ..
DefendOk ==
    /\ pc = "defend"
    /\ defends' = defends + 1
    /\ now' = 0
    /\ pc' = "loop"
    /\ UNCHANGED <<config, analysis, cdconfig, profile_idx, symbol_idx, symbols,
                   macro_idx, output, log, uploads, analyzes, polls, sleeps, last>>

\* Err(e) => { log::error!("Failed to defend file: {}", ..); }
DefendErr ==
    /\ pc = "defend"
    /\ defends' = defends + 1
    /\ log' = Append(log, LogEntry("DefendFailed", "", 0))
    /\ pc' = "done"
    /\ UNCHANGED <<config, analysis, cdconfig, profile_idx, symbol_idx, symbols,
                   macro_idx, now, output, uploads, analyzes, polls, sleeps, last>>

\* LoopCheck without the deadline test
LoopCheck_NoDeadline ==
    /\ pc = "loop"
    /\ pc' = "download"
    /\ UNCHANGED <<config, analysis, cdconfig, profile_idx, symbol_idx, symbols,
                   macro_idx, now, output, log, uploads, analyzes, defends, polls,
                   sleeps, last>>

\* loop { if start_time.elapsed() > timeout_duration { log::error!("Timeout: .."); return; }
LoopCheck ==
    /\ pc = "loop"
    /\ IF now > timeout_duration
       THEN /\ log' = Append(log, LogEntry("Timeout", "", 0))
            /\ pc' = "done"
       ELSE /\ pc' = "download"
            /\ UNCHANGED log
    /\ UNCHANGED <<config, analysis, cdconfig, profile_idx, symbol_idx, symbols,
                   macro_idx, now, output, uploads, analyzes, defends, polls,
                   sleeps, last>>

\* DownloadStatus::Ready(bytes) => { fs::write(config.output_file.clone(), bytes).expect(..); }
DownloadReady ==
    /\ pc = "download"
    /\ \E d \in PollDurations : now' = Advance(now, d)
    /\ polls' = Count(polls)
    /\ last' = "Ready"
    /\ output' = Count(output)
    /\ pc' = "sleep"
    /\ UNCHANGED <<config, analysis, cdconfig, profile_idx, symbol_idx, symbols,
                   macro_idx, log, uploads, analyzes, defends, sleeps>>

\* DownloadStatus::Processing => {}
DownloadProcessing ==
    /\ pc = "download"
    /\ \E d \in PollDurations : now' = Advance(now, d)
    /\ polls' = Count(polls)
    /\ last' = "Processing"
    /\ pc' = "sleep"
    /\ UNCHANGED <<config, analysis, cdconfig, profile_idx, symbol_idx, symbols,
                   macro_idx, output, log, uploads, analyzes, defends, sleeps>>

\* DownloadFailed without the return: the failure is logged and the loop goes on
DownloadFailed_NoReturn ==
    /\ pc = "download"
    /\ \E d \in PollDurations : now' = Advance(now, d)
    /\ polls' = Count(polls)
    /\ last' = "Failed"
    /\ log' = Append(log, LogEntry("ObfuscationFailed", "", 0))
    /\ pc' = "sleep"
    /\ UNCHANGED <<config, analysis, cdconfig, profile_idx, symbol_idx, symbols,
                   macro_idx, output, uploads, analyzes, defends, sleeps>>

\* DownloadStatus::Failed(error) => { log::error!("Obfuscation failed: {}", ..); return; }
DownloadFailed ==
    /\ pc = "download"
    /\ \E d \in PollDurations : now' = Advance(now, d)
    /\ polls' = Count(polls)
    /\ last' = "Failed"
    /\ log' = Append(log, LogEntry("ObfuscationFailed", "", 0))
    /\ pc' = "done"
    /\ UNCHANGED <<config, analysis, cdconfig, profile_idx, symbol_idx, symbols,
                   macro_idx, output, uploads, analyzes, defends, sleeps>>

\* Sleep in a loop that takes start_time at each iteration, so that the
\* deadline runs from the last pause
Sleep_RestartsClock ==
    /\ pc = "sleep"
    /\ sleeps' = Count(sleeps)
    /\ now' = 0
    /\ pc' = "loop"
    /\ UNCHANGED <<config, analysis, cdconfig, profile_idx, symbol_idx, symbols,
                   macro_idx, output, log, uploads, analyzes, defends, polls, last>>

\* std::thread::sleep(Duration::from_millis(config.timeout)); then the next iteration
Sleep ==
    /\ pc = "sleep"
    /\ sleeps' = Count(sleeps)
    /\ now' = Advance(now, config.timeout)
    /\ pc' = "loop"
    /\ UNCHANGED <<config, analysis, cdconfig, profile_idx, symbol_idx, symbols,
                   macro_idx, output, log, uploads, analyzes, defends, polls, last>>

Next ==
    \/ CheckVersion
    \/ UploadBinary
    \/ UploadPdb
    \/ AnalyzeOk(AnalysisResults(MaxFunctions, MaxRejects, MaxMacros, MaxMacroRvas))
    \/ AnalyzeErr
    \/ ResolveStep
    \/ PushProfile
    \/ EndCompile
    \/ MergeGroup
    \/ EndMerge
    \/ DefendOk
    \/ DefendErr
    \/ LoopCheck
    \/ DownloadReady
    \/ DownloadProcessing
    \/ DownloadFailed
    \/ Sleep

Spec == Init /\ [][Next]_vars

\* the compile phase alone
NextCompile ==
    \/ ResolveStep
    \/ PushProfile
    \/ EndCompile

SpecCompile == InitCompile /\ [][NextCompile]_vars

SpecResolve == InitResolve /\ [][NextCompile]_vars

\* the compile and merge phases, up to the call of api::defend
NextMerge ==
    \/ ResolveStep
    \/ PushProfile
    \/ EndCompile
    \/ MergeGroup
    \/ EndMerge

SpecMerge == InitMerge /\ [][NextMerge]_vars

\* the poll loop alone
NextPoll ==
    \/ LoopCheck
    \/ DownloadReady
    \/ DownloadProcessing
    \/ DownloadFailed
    \/ Sleep

SpecPoll == InitPoll /\ [][NextPoll]_vars

\* a step of the poll loop during which the clock advances
ClockAdvances == NextPoll /\ now' > now

\* main() keeps running, and time passes: of the download calls and sleeps of
\* a loop that goes on, some take time
SpecPollFair == SpecPoll /\ WF_vars(NextPoll) /\ SF_vars(ClockAdvances)

(***************************************************************************)
(* Properties of the poll loop.                                            *)
(***************************************************************************)
Logged(kind) == \E i \in 1..Len(log) : log[i].kind = kind

LastLogged(kind) == Len(log) > 0 /\ log[Len(log)].kind = kind

\* the run has ended reporting the timeout
TimedOut == pc = "done" /\ LastLogged("Timeout")

\* no download call has returned Ready or Failed so far
OnlyProcessing == output = 0 /\ last \in {"None", "Processing"}

\* C1: once a download call has returned Ready (the payload has been written),
\* the poller stops: no further download call and no further sleep is made.
C1_StopsOnReady ==
    [][output > 0 => (polls' = polls /\ sleeps' = sleeps)]_vars

\* C4: Timeout and Failed are reported only in runs in which no download call
\* returned Ready: once the payload has been written, neither is logged.
C4_ReadyIsFinal ==
    output > 0 => ~Logged("Timeout") /\ ~Logged("ObfuscationFailed")

\* C5: when a download call returns Failed, main() logs the failure and returns
\* at once, whatever the elapsed time: no step follows, so no sleep and no poll.
C5_FailedStops ==
    /\ [](last = "Failed" => pc = "done" /\ LastLogged("ObfuscationFailed"))
    /\ [][last # "Failed"]_vars

\* a download call has returned Failed after an earlier one returned
\* Processing, before the deadline
C5_Witness ==
    /\ last = "Failed"
    /\ pc = "done"
    /\ polls >= 2
    /\ sleeps >= 1
    /\ now <= timeout_duration

\* C6: if every download call answers Processing, the run eventually ends
\* reporting the timeout, whatever the poll interval, provided the clock advances.
C6_TimesOut == <>(~OnlyProcessing \/ TimedOut)

\* the run has timed out on Processing answers alone with a poll interval of zero
C6_Witness ==
    /\ TimedOut
    /\ OnlyProcessing
    /\ last = "Processing"
    /\ config.timeout = 0

(***************************************************************************)
(* Properties of compilation and macro merging.  Eligibility is stated     *)
(* here over the sets of entries of the analysis result, independently of  *)
(* the searches main() makes.                                              *)
(***************************************************************************)
FunctionRvas(a) == {a.functions[i].rva : i \in 1..Len(a.functions)}

ForcedRejects(a) == {i \in 1..Len(a.rejects) : a.rejects[i].ty = "ReadWriteToCode"}

ForcedRvas(a) == {a.rejects[i].rva : i \in ForcedRejects(a)}

EligibleRvas(a) == FunctionRvas(a) \cup ForcedRvas(a)

FunctionNames(a) == {a.functions[i].symbol : i \in 1..Len(a.functions)}

ForcedNames(a) == {a.rejects[i].symbol : i \in ForcedRejects(a)}

SymbolResolvable(a, s) ==
    IF s.tag = "Name" THEN s.name \in FunctionNames(a) \cup ForcedNames(a)
    ELSE s.rva \in EligibleRvas(a)

ProfileCompilable(a, profile) ==
    \A k \in 1..Len(profile.symbols) : SymbolResolvable(a, profile.symbols[k])

GroupMergeable(cfg, a, group) ==
    /\ \E i \in 1..Len(cfg.profiles) : cfg.profiles[i].name = group.name
    /\ \A k \in 1..Len(group.rvas) : group.rvas[k] \in EligibleRvas(a)

ConfigErrorKinds ==
    {"SymbolNameNotFound", "RvaNotFound", "MacroProfileMissing", "MacroCantBeProtected"}

\* C2: api::defend is called (and so api::download is called) only when every
\* profile of the configuration has been compiled and every macro group has
\* been merged; in a run with a symbol that does not resolve, a macro group
\* naming no profile or an ineligible macro address, neither is ever called.
C2_SubmitOnlyValidated ==
    /\ (defends > 0 \/ polls > 0) =>
          /\ \A i \in 1..Len(config.profiles) :
                ProfileCompilable(analysis, config.profiles[i])
          /\ \A j \in 1..Len(analysis.macros) :
                GroupMergeable(config, analysis, analysis.macros[j])
          /\ profile_idx > Len(config.profiles)
          /\ Len(cdconfig.profiles) = Len(config.profiles)
          /\ macro_idx > Len(analysis.macros)
    /\ (\E k \in ConfigErrorKinds : Logged(k)) => defends = 0 /\ polls = 0

\* api::defend has been called for a profile with a declared symbol and a
\* merged macro group
C2_Witness ==
    /\ defends > 0
    /\ Len(config.profiles) > 0
    /\ Len(config.profiles[1].symbols) > 0
    /\ Len(analysis.macros) > 0
    /\ Len(analysis.macros[1].rvas) > 0

\* C3: in every state, every address of every compiled profile is the rva of a
\* function or of a reject of category "ReadWriteToCode"; this holds of the
\* config handed to api::defend (cdconfig when pc = "defend").
C3_AddressesEligible ==
    \A i \in 1..Len(cdconfig.profiles) :
        \A k \in 1..Len(cdconfig.profiles[i].symbols) :
            cdconfig.profiles[i].symbols[k] \in EligibleRvas(analysis)

\* api::defend has been handed a profile with a declared and a macro address,
\* one of them the rva of no function (so that of a "ReadWriteToCode" reject)
C3_Witness ==
    /\ pc = "loop"
    /\ Len(cdconfig.profiles) > 0
    /\ Len(config.profiles[1].symbols) = 1
    /\ Len(cdconfig.profiles[1].symbols) = 2
    /\ \E k \in 1..2 : cdconfig.profiles[1].symbols[k] \notin FunctionRvas(analysis)

(***************************************************************************)
(* Properties of symbol resolution.  A declared symbol is at a position    *)
(* (p, k): symbol k of profile p of the configuration.                     *)
(***************************************************************************)
DeclaredSymbol(p, k) == config.profiles[p].symbols[k]

\* the symbol at (p, k) has been resolved and its address pushed
Processed(p, k) == p < profile_idx \/ (p = profile_idx /\ k < symbol_idx)

\* the address pushed for the processed symbol at (p, k)
ResolvedAt(p, k) ==
    IF p < profile_idx THEN cdconfig.profiles[p].symbols[k] ELSE symbols[k]

\* main() has returned at the symbol at (p, k)
FailedAt(p, k) ==
    /\ pc = "done"
    /\ p = profile_idx
    /\ k = symbol_idx
    /\ (LastLogged("SymbolNameNotFound") \/ LastLogged("RvaNotFound"))

\* the error record that names symbol s
ErrorNaming(s) ==
    IF s.tag = "Name" THEN LogEntry("SymbolNameNotFound", s.name, 0)
    ELSE LogEntry("RvaNotFound", "", s.rva)

\* the first function named n, in the order of the analysis result
FirstFunctionNamed(a, n) ==
    CHOOSE i \in 1..Len(a.functions) :
        /\ a.functions[i].symbol = n
        /\ \A j \in 1..(i - 1) : a.functions[j].symbol # n

\* the first reject named n of category "ReadWriteToCode"
FirstForcedNamed(a, n) ==
    CHOOSE i \in ForcedRejects(a) :
        /\ a.rejects[i].symbol = n
        /\ \A j \in ForcedRejects(a) : j < i => a.rejects[j].symbol # n

\* mentions of address x in the compiled profiles and in the profile being compiled
Mentions(x) ==
    \/ \E k \in 1..Len(symbols) : symbols[k] = x
    \/ \E i \in 1..Len(cdconfig.profiles) :
          \E k \in 1..Len(cdconfig.profiles[i].symbols) :
              cdconfig.profiles[i].symbols[k] = x

\* C7: a ByName(n) symbol such that some function is named n never fails to
\* resolve, and resolves to the rva of the first function named n, whatever
\* the rejects are.
C7_NameResolvesToFunction ==
    \A p \in 1..Len(config.profiles) :
        \A k \in 1..Len(config.profiles[p].symbols) :
            LET s == DeclaredSymbol(p, k)
            IN  (s.tag = "Name" /\ s.name \in FunctionNames(analysis)) =>
                   /\ ~FailedAt(p, k)
                   /\ Processed(p, k) =>
                         ResolvedAt(p, k) =
                            analysis.functions[FirstFunctionNamed(analysis, s.name)].rva

\* a name has been resolved that two functions with different rvas carry, and
\* that a "ReadWriteToCode" reject carries with an rva other than the first function's
C7_Witness ==
    /\ Len(config.profiles) = 1
    /\ Len(config.profiles[1].symbols) = 1
    /\ Processed(1, 1)
    /\ DeclaredSymbol(1, 1).tag = "Name"
    /\ Len(analysis.functions) = 2
    /\ analysis.functions[1].symbol = DeclaredSymbol(1, 1).name
    /\ analysis.functions[2].symbol = DeclaredSymbol(1, 1).name
    /\ analysis.functions[1].rva # analysis.functions[2].rva
    /\ \E i \in ForcedRejects(analysis) :
          /\ analysis.rejects[i].symbol = DeclaredSymbol(1, 1).name
          /\ analysis.rejects[i].rva # analysis.functions[1].rva

\* C8: a ByName(n) symbol such that no function is named n resolves if and only
\* if some reject named n has category "ReadWriteToCode", and then to the rva
\* of the first such reject; otherwise main() logs the name and returns, and
\* the profile is not compiled.
C8_NameResolvesToForcedReject ==
    \A p \in 1..Len(config.profiles) :
        \A k \in 1..Len(config.profiles[p].symbols) :
            LET s == DeclaredSymbol(p, k)
            IN  (s.tag = "Name" /\ s.name \notin FunctionNames(analysis)) =>
                   /\ Processed(p, k) =>
                         /\ s.name \in ForcedNames(analysis)
                         /\ ResolvedAt(p, k) =
                               analysis.rejects[FirstForcedNamed(analysis, s.name)].rva
                   /\ FailedAt(p, k) =>
                         /\ s.name \notin ForcedNames(analysis)
                         /\ log = <<LogEntry("SymbolNameNotFound", s.name, 0)>>
                         /\ Len(cdconfig.profiles) = p - 1

\* a name that no function carries has been resolved to the second reject,
\* the first reject carrying the name with another category and another rva
C8_Witness ==
    /\ Len(config.profiles) = 1
    /\ Len(config.profiles[1].symbols) = 1
    /\ Processed(1, 1)
    /\ DeclaredSymbol(1, 1).tag = "Name"
    /\ DeclaredSymbol(1, 1).name \notin FunctionNames(analysis)
    /\ Len(analysis.functions) > 0
    /\ Len(analysis.rejects) = 2
    /\ analysis.rejects[1].symbol = DeclaredSymbol(1, 1).name
    /\ analysis.rejects[1].ty # "ReadWriteToCode"
    /\ analysis.rejects[1].rva # analysis.rejects[2].rva
    /\ ResolvedAt(1, 1) = analysis.rejects[2].rva

\* C9: a ByAddress(a) symbol resolves, to a itself, if and only if a is the rva
\* of a function or of a reject of category "ReadWriteToCode"; otherwise main()
\* logs the address and returns, and a is in no profile.
C9_AddressResolvesIffEligible ==
    \A p \in 1..Len(config.profiles) :
        \A k \in 1..Len(config.profiles[p].symbols) :
            LET s == DeclaredSymbol(p, k)
            IN  s.tag = "Rva" =>
                   /\ Processed(p, k) =>
                         /\ s.rva \in EligibleRvas(analysis)
                         /\ ResolvedAt(p, k) = s.rva
                   /\ FailedAt(p, k) =>
                         /\ s.rva \notin EligibleRvas(analysis)
                         /\ log = <<LogEntry("RvaNotFound", "", s.rva)>>
                         /\ ~Mentions(s.rva)

\* an address has been resolved that is the rva of no function: it is the rva
\* of the second reject, of category "ReadWriteToCode", and also of the first,
\* of another category
C9_Witness ==
    /\ Len(config.profiles) = 1
    /\ Len(config.profiles[1].symbols) = 1
    /\ Processed(1, 1)
    /\ DeclaredSymbol(1, 1).tag = "Rva"
    /\ DeclaredSymbol(1, 1).rva \notin FunctionRvas(analysis)
    /\ Len(analysis.functions) > 0
    /\ Len(analysis.rejects) = 2
    /\ analysis.rejects[1].rva = DeclaredSymbol(1, 1).rva
    /\ analysis.rejects[1].ty # "ReadWriteToCode"
    /\ analysis.rejects[2].rva = DeclaredSymbol(1, 1).rva

\* C10: compilation is fail-fast.  Symbols are processed in declaration order
\* and only resolvable ones are passed; when main() returns from compilation,
\* exactly one error is logged, naming the first symbol that does not resolve,
\* nothing after it has been resolved, and the profile declaring it is not in
\* the compiled config; the macro loop is reached only when every symbol resolves.
C10_FailFast ==
    /\ \A p \in 1..Len(config.profiles) :
          \A k \in 1..Len(config.profiles[p].symbols) :
              Processed(p, k) => SymbolResolvable(analysis, DeclaredSymbol(p, k))
    /\ pc = "done" =>
          /\ profile_idx <= Len(config.profiles)
          /\ symbol_idx <= Len(config.profiles[profile_idx].symbols)
          /\ ~SymbolResolvable(analysis, DeclaredSymbol(profile_idx, symbol_idx))
          /\ log = <<ErrorNaming(DeclaredSymbol(profile_idx, symbol_idx))>>
          /\ Len(symbols) = symbol_idx - 1
          /\ Len(cdconfig.profiles) = profile_idx - 1
    /\ pc = "merge" =>
          /\ log = <<>>
          /\ Len(cdconfig.profiles) = Len(config.profiles)
          /\ \A p \in 1..Len(config.profiles) :
                ProfileCompilable(analysis, config.profiles[p])

\* main() has returned at the first symbol of the second profile, whose second
\* symbol would resolve, after the first profile was compiled
C10_Witness ==
    /\ pc = "done"
    /\ Len(config.profiles) = 2
    /\ Len(config.profiles[1].symbols) = 2
    /\ Len(cdconfig.profiles) = 1
    /\ profile_idx = 2
    /\ symbol_idx = 1
    /\ Len(config.profiles[2].symbols) = 2
    /\ SymbolResolvable(analysis, DeclaredSymbol(2, 2))


(***************************************************************************)
(* Properties of the macro merge.                                          *)
(***************************************************************************)
\* main() is about to merge a macro group
MergePending == pc = "merge" /\ macro_idx <= Len(analysis.macros)

\* the compiled profiles that carry the name of the group about to be merged
Carriers ==
    {i \in 1..Len(cdconfig.profiles) :
        cdconfig.profiles[i].name = analysis.macros[macro_idx].name}

\* the addresses of the group about to be merged that are not eligible
IneligibleOfGroup ==
    {analysis.macros[macro_idx].rvas[k] :
        k \in {j \in 1..Len(analysis.macros[macro_idx].rvas) :
                  analysis.macros[macro_idx].rvas[j] \notin EligibleRvas(analysis)}}

\* C11: merging a macro group whose profile name is carried by a compiled
\* profile and that holds an ineligible address, at whatever position, ends the
\* run reporting one of its ineligible addresses as not protectable, and leaves
\* the compiled configuration as it was: none of the group's addresses is added.
C11_UnprotectableGroupRejected ==
    [][(MergePending /\ Carriers # {} /\ IneligibleOfGroup # {})
          => /\ pc' = "done"
             /\ cdconfig' = cdconfig
             /\ Len(log') = Len(log) + 1
             /\ log'[Len(log')].kind = "MacroCantBeProtected"
             /\ log'[Len(log')].rva \in IneligibleOfGroup]_vars

\* the second group was rejected for an ineligible address that follows an
\* eligible one, its profile holding addresses already
C11_Witness ==
    /\ pc = "done"
    /\ LastLogged("MacroCantBeProtected")
    /\ macro_idx = 2
    /\ Len(analysis.macros[2].rvas) = 2
    /\ analysis.macros[2].rvas[1] \in EligibleRvas(analysis)
    /\ analysis.macros[2].rvas[2] \notin EligibleRvas(analysis)
    /\ \E i \in 1..Len(cdconfig.profiles) :
          /\ cdconfig.profiles[i].name = analysis.macros[2].name
          /\ Len(cdconfig.profiles[i].symbols) >= 2

\* C12: merging a macro group whose profile name no compiled profile carries
\* ends the run reporting that name as a missing profile; the group is not
\* skipped, and the compiled configuration (every profile's address list) is
\* left as it was.
C12_UnknownProfileRejected ==
    [][(MergePending /\ Carriers = {})
          => /\ pc' = "done"
             /\ macro_idx' = macro_idx
             /\ cdconfig' = cdconfig
             /\ log' = Append(log, LogEntry("MacroProfileMissing",
                                            analysis.macros[macro_idx].name, 0))]_vars

\* the second group, all of whose addresses are eligible, was rejected because
\* no compiled profile carries its name, after the first group was merged
C12_Witness ==
    /\ pc = "done"
    /\ LastLogged("MacroProfileMissing")
    /\ macro_idx = 2
    /\ analysis.macros[2].rvas # <<>>
    /\ \A k \in 1..Len(analysis.macros[2].rvas) :
          analysis.macros[2].rvas[k] \in EligibleRvas(analysis)
    /\ \E i \in 1..Len(cdconfig.profiles) : Len(cdconfig.profiles[i].symbols) >= 2
    /\ \A i \in 1..Len(cdconfig.profiles) :
          cdconfig.profiles[i].name # analysis.macros[2].name

\* the address a resolvable declared symbol stands for: its own rva, or the rva
\* of the first function of that name, or else that of the first
\* "ReadWriteToCode" reject of that name
AddressOf(a, s) ==
    IF s.tag = "Rva" THEN s.rva
    ELSE IF s.name \in FunctionNames(a) THEN a.functions[FirstFunctionNamed(a, s.name)].rva
    ELSE a.rejects[FirstForcedNamed(a, s.name)].rva

\* the addresses of the symbols profile i declares, in the order declared
DeclaredAddresses(i) ==
    [k \in 1..Len(config.profiles[i].symbols) |->
        AddressOf(analysis, config.profiles[i].symbols[k])]

\* the first compiled profile that carries name n, or 0
FirstCarrier(n) ==
    IF \E i \in 1..Len(cdconfig.profiles) : cdconfig.profiles[i].name = n
    THEN CHOOSE i \in 1..Len(cdconfig.profiles) :
            /\ cdconfig.profiles[i].name = n
            /\ \A j \in 1..(i - 1) : cdconfig.profiles[j].name # n
    ELSE 0

\* the addresses of the first j macro groups that go to profile i, group after
\* group, each group's addresses in its own order
RECURSIVE GroupsFor(_, _)
GroupsFor(i, j) ==
    IF j = 0 THEN <<>>
    ELSE GroupsFor(i, j - 1) \o
         (IF FirstCarrier(analysis.macros[j].name) = i
          THEN analysis.macros[j].rvas ELSE <<>>)

\* C13: once the profiles are compiled, each profile's address list is the
\* addresses of its declared symbols followed by the addresses of the groups
\* merged into it so far, in group order and in each group's own order, with
\* nothing removed: after g1 and g2 both naming P, P holds declared ++ g1 ++ g2,
\* repeated addresses included.
C13_MergeAppendsInOrder ==
    profile_idx > Len(config.profiles)
       => \A i \in 1..Len(cdconfig.profiles) :
             cdconfig.profiles[i].symbols =
                DeclaredAddresses(i) \o GroupsFor(i, macro_idx - 1)

\* two groups naming the first profile were merged, the first with two distinct
\* addresses of which one repeats the declared address, the second repeating an
\* address of the first
C13_Witness ==
    /\ pc = "defend"
    /\ Len(analysis.macros) = 2
    /\ analysis.macros[1].name = cdconfig.profiles[1].name
    /\ analysis.macros[2].name = cdconfig.profiles[1].name
    /\ Len(config.profiles[1].symbols) = 1
    /\ Len(analysis.macros[1].rvas) = 2
    /\ analysis.macros[1].rvas[1] # analysis.macros[1].rvas[2]
    /\ analysis.macros[1].rvas[2] = cdconfig.profiles[1].symbols[1]
    /\ Len(analysis.macros[2].rvas) = 1
    /\ analysis.macros[2].rvas[1] = analysis.macros[1].rvas[1]
    /\ Len(cdconfig.profiles[1].symbols) = 4

\* a step that merges the pending macro group
MergeSucceeds == MergePending /\ macro_idx' = macro_idx + 1

\* C14 as claimed: a macro group is merged only when exactly one compiled
\* profile carries its profile name.
C14_ExactlyOneCarrier ==
    [][MergeSucceeds => Cardinality(Carriers) = 1]_vars

\* C14: a macro group is merged only when at least one compiled profile carries
\* its profile name, never when none does; when several carry it, the group is
\* merged all the same, its addresses going to the first of them in the order
\* of the configuration and the others keeping their lists.
C14_MergedIntoFirstCarrier ==
    [][MergeSucceeds
          => /\ Carriers # {}
             /\ \A i \in Carriers :
                   cdconfig'.profiles[i].symbols =
                      IF \A j \in Carriers : i <= j
                      THEN cdconfig.profiles[i].symbols \o analysis.macros[macro_idx].rvas
                      ELSE cdconfig.profiles[i].symbols]_vars

\* a group with addresses was merged while two compiled profiles carry its name
C14_Witness ==
    /\ pc = "merge"
    /\ macro_idx = 2
    /\ Len(cdconfig.profiles) = 2
    /\ cdconfig.profiles[1].name = analysis.macros[1].name
    /\ cdconfig.profiles[2].name = analysis.macros[1].name
    /\ analysis.macros[1].rvas # <<>>
    /\ Len(cdconfig.profiles[1].symbols) > Len(config.profiles[1].symbols)

(***************************************************************************)
(* Properties of the remote operations.                                    *)
(***************************************************************************)
\* main() is about to call api::upload, api::analyze, api::defend or api::download
AtRemoteCall == pc \in {"upload_binary", "upload_pdb", "analyze", "defend", "download"}

\* a remote operation has reported a failure: an upload panicked, or analyze,
\* defend or download returned an error
RemoteFailed ==
    \/ pc = "panicked"
    \/ Logged("AnalysisFailed")
    \/ Logged("DefendFailed")
    \/ Logged("ObfuscationFailed")

\* C15: no remote operation is retried: api::analyze and api::defend are each
\* called at most once in a run, api::upload at most once per file (the binary,
\* and the pdb when one is configured), and once an upload, analyze, defend or
\* download call has reported a failure no remote operation is called again.
C15_NoRetry ==
    /\ [](/\ analyzes <= 1
          /\ defends <= 1
          /\ uploads <= (IF config.pdb_file THEN 2 ELSE 1))
    /\ [](RemoteFailed => ~AtRemoteCall)
    /\ [][RemoteFailed
             => /\ uploads' = uploads
                /\ analyzes' = analyzes
                /\ defends' = defends
                /\ polls' = polls]_vars

\* a run that uploaded both files, analysed, submitted and polled ended on a
\* download call that returned Failed
C15_Witness ==
    /\ pc = "done"
    /\ LastLogged("ObfuscationFailed")
    /\ uploads = 2
    /\ analyzes = 1
    /\ defends = 1
    /\ polls >= 2

\* C16: the deadline runs from the moment api::defend returned: the elapsed
\* time is never reset in the poll loop and counts every download call and every
\* pause; api::download is called only while the elapsed time does not exceed
\* timeout_duration (5 minutes); and every pause lasts the configured interval,
\* which never changes.
C16_SingleDeadline ==
    /\ [](pc = "download" => now <= timeout_duration)
    /\ [][(pc \in {"loop", "download", "sleep"}) => (now' >= now)]_vars
    /\ [][pc = "sleep" => (/\ config' = config
                           /\ now' = Min(now + config.timeout, ClockCap))]_vars

\* api::download is called for the third time at least, exactly at the
\* deadline, after download calls and pauses that took time
C16_Witness ==
    /\ pc = "download"
    /\ now = timeout_duration
    /\ polls >= 2
    /\ sleeps >= 2
    /\ config.timeout = 1

(***************************************************************************)
(* Properties of profile compilation.                                      *)
(***************************************************************************)
\* C17: when every declared symbol resolves, the compiled configuration holds,
\* before any macro group is merged, one compiled profile per profile of the
\* user configuration, in the same order, each with the name, passes and
\* compiler settings of its profile and with one address per declared symbol:
\* the i-th address is the address the i-th symbol stands for, repeated symbols
\* giving repeated addresses.
C17_CompiledMirrorsConfig ==
    pc = "merge" /\ macro_idx = 1
       => /\ Len(cdconfig.profiles) = Len(config.profiles)
          /\ cdconfig.module_settings = config.module_settings
          /\ \A i \in 1..Len(config.profiles) :
                /\ cdconfig.profiles[i].name = config.profiles[i].name
                /\ cdconfig.profiles[i].passes = config.profiles[i].passes
                /\ cdconfig.profiles[i].compiler_settings =
                      config.profiles[i].compiler_settings
                /\ cdconfig.profiles[i].symbols = DeclaredAddresses(i)

\* two profiles of different names, passes and settings were compiled, the
\* first declaring the same symbol twice, the second a symbol given by name
\* that stands for another address
C17_Witness ==
    /\ pc = "merge"
    /\ Len(cdconfig.profiles) = 2
    /\ config.profiles[1].name # config.profiles[2].name
    /\ config.profiles[1].passes # config.profiles[2].passes
    /\ Len(config.profiles[1].symbols) = 2
    /\ config.profiles[1].symbols[1] = config.profiles[1].symbols[2]
    /\ Len(config.profiles[2].symbols) >= 1
    /\ config.profiles[2].symbols[1].tag = "Name"
    /\ cdconfig.profiles[2].symbols[1] # cdconfig.profiles[1].symbols[1]

\* profile i after the step differs from profile i before it at most in that
\* its address list has grown at the end
OnlyExtended(i) ==
    /\ cdconfig'.profiles[i].name = cdconfig.profiles[i].name
    /\ cdconfig'.profiles[i].passes = cdconfig.profiles[i].passes
    /\ cdconfig'.profiles[i].compiler_settings = cdconfig.profiles[i].compiler_settings
    /\ Len(cdconfig'.profiles[i].symbols) >= Len(cdconfig.profiles[i].symbols)
    /\ SubSeq(cdconfig'.profiles[i].symbols, 1, Len(cdconfig.profiles[i].symbols)) =
          cdconfig.profiles[i].symbols

\* C18: a successful merge of one macro group changes the address list of one
\* profile that carries the group's name, and only by appending the group's
\* addresses to it; the other profiles, the addresses the profile held, the
\* number and order of the profiles, their names, passes and compiler settings,
\* the module settings, the user configuration and the analysis result stay as
\* they were.
C18_MergeFrame ==
    [][MergeSucceeds
          => /\ analysis' = analysis
             /\ config' = config
             /\ cdconfig'.module_settings = cdconfig.module_settings
             /\ Len(cdconfig'.profiles) = Len(cdconfig.profiles)
             /\ \E t \in Carriers :
                   /\ OnlyExtended(t)
                   /\ cdconfig'.profiles[t].symbols =
                         cdconfig.profiles[t].symbols \o analysis.macros[macro_idx].rvas
                   /\ \A i \in 1..Len(cdconfig.profiles) :
                         i # t => cdconfig'.profiles[i] = cdconfig.profiles[i]]_vars

\* the second group was merged into the second of two profiles, which held
\* addresses, while the first profile holds addresses of the first group
C18_Witness ==
    /\ pc = "merge"
    /\ macro_idx = 3
    /\ Len(cdconfig.profiles) = 2
    /\ cdconfig.profiles[1].name = analysis.macros[1].name
    /\ cdconfig.profiles[2].name = analysis.macros[2].name
    /\ cdconfig.profiles[1].name # cdconfig.profiles[2].name
    /\ Len(config.profiles[2].symbols) = 1
    /\ Len(analysis.macros[1].rvas) = 2
    /\ Len(analysis.macros[2].rvas) = 2
    /\ Len(cdconfig.profiles[2].symbols) = 3

(***************************************************************************)
(* The library (utils) against the loops of main().                        *)
(***************************************************************************)
\* what resolve_symbols returns for the symbols profile p declares
Library(p) == resolve_symbols(config.profiles[p].symbols, analysis)

\* C19: resolve_symbols computes what the profile loop of main() computes: for a
\* profile main() has compiled it returns Ok with the same addresses in the
\* same order; where main() has returned at a symbol it returns Err at that
\* same symbol (missing name for missing name, invalid rva for invalid rva);
\* on the symbols main() has got through so far it agrees with the addresses
\* pushed.  And is_valid_rva accepts exactly the addresses main() accepts for a
\* symbol declared by rva and for an rva of a macro group.
C19_LibraryMatchesInline ==
    /\ \A r \in Rvas :
          /\ is_valid_rva(r, analysis) <=> ResolveRva(analysis, r).ok
          /\ is_valid_rva(r, analysis) <=> ~MacroRvaRejected(analysis, r)
    /\ \A p \in 1..Len(config.profiles) :
          /\ p < profile_idx
                => /\ Library(p).ok
                   /\ Library(p).resolved = cdconfig.profiles[p].symbols
          /\ (p = profile_idx /\ pc = "done")
                => /\ ~Library(p).ok
                   /\ Library(p).at = symbol_idx
                   /\ Library(p).err = "Missing symbol" <=> LastLogged("SymbolNameNotFound")
                   /\ Library(p).err = "Invalid RVA" <=> LastLogged("RvaNotFound")
          /\ (p = profile_idx /\ pc = "compile")
                => LET sofar == resolve_symbols(
                                   SubSeq(config.profiles[p].symbols, 1, symbol_idx - 1),
                                   analysis)
                   IN  /\ sofar.ok
                       /\ sofar.resolved = symbols
                       /\ Library(p).ok \/ Library(p).at >= symbol_idx

\* main() has returned at the second symbol of the second profile, an rva that
\* only a reject of another category carries, and resolve_symbols fails there too
C19_Witness ==
    /\ pc = "done"
    /\ profile_idx = 2
    /\ symbol_idx = 2
    /\ Len(config.profiles[1].symbols) >= 1
    /\ config.profiles[2].symbols[2].tag = "Rva"
    /\ \E i \in 1..Len(analysis.rejects) :
          /\ analysis.rejects[i].rva = config.profiles[2].symbols[2].rva
          /\ analysis.rejects[i].ty # "ReadWriteToCode"
    /\ ~Library(2).ok
    /\ Library(2).at = 2
    /\ Library(1).ok

\* the number of files main() uploads
FilesToUpload == IF config.pdb_file THEN 2 ELSE 1

\* C20: the remote operations are called in the order upload of the binary,
\* upload of the pdb when one is configured, analyze, defend, download, each
\* only after the one before it has succeeded: api::upload is called only before
\* any analyze, the pdb only after the binary; api::analyze only once every file
\* is uploaded and before any defend; api::defend only after analyze returned
\* Ok and before any download; api::download only after defend returned Ok.  A
\* configuration whose version is not YAML_CONFIG_VERSION ends the run with no
\* remote operation called.
C20_RemoteOrder ==
    /\ [](config.version # YAML_CONFIG_VERSION
             => uploads = 0 /\ analyzes = 0 /\ defends = 0 /\ polls = 0)
    /\ [](pc \in {"upload_binary", "upload_pdb"}
             => /\ uploads = (IF pc = "upload_pdb" THEN 1 ELSE 0)
                /\ (pc = "upload_pdb" => config.pdb_file)
                /\ analyzes = 0 /\ defends = 0 /\ polls = 0)
    /\ [](pc = "analyze"
             => uploads = FilesToUpload /\ analyzes = 0 /\ defends = 0 /\ polls = 0)
    /\ [](pc = "defend"
             => /\ uploads = FilesToUpload
                /\ analyzes = 1 /\ ~Logged("AnalysisFailed")
                /\ defends = 0 /\ polls = 0)
    /\ [](pc = "download"
             => /\ uploads = FilesToUpload
                /\ analyzes = 1 /\ ~Logged("AnalysisFailed")
                /\ defends = 1 /\ ~Logged("DefendFailed"))
    /\ [][/\ uploads' # uploads => pc \in {"upload_binary", "upload_pdb"}
          /\ analyzes' # analyzes => pc = "analyze"
          /\ defends' # defends => pc = "defend"
          /\ polls' # polls => pc = "download"]_vars

\* a run with a pdb file has reached its second download call
C20_Witness ==
    /\ pc = "download"
    /\ config.pdb_file
    /\ uploads = 2
    /\ analyzes = 1
    /\ defends = 1
    /\ polls >= 1

====
